---- MODULE Spec2Model ----
(***************************************************************************)
(* Model of the MMM analytics app: the analysis orchestrator               *)
(* (app/services/analysis-runner.server.ts), the data merger               *)
(* (app/services/data-merger.server.ts), the analysis quota of the billing *)
(* service and the shop-redact webhook, over the Prisma tables Shop,       *)
(* DataSource, DailyDataPoint and Analysis.                                *)
(*                                                                         *)
(* Conventions.  A DateTime is a number of hours since 2024-01-01T00:00Z.  *)
(* The text toISOString().slice(0, 10) of a DateTime is modelled by the    *)
(* number yyyymmdd (20240101 + whole days), which orders as the text does. *)
(* A data point value is a small natural number.                           *)
(***************************************************************************)
EXTENDS Integers, Sequences, FiniteSets, TLC

\* ------------------------------------------------------------------ bounds
NumShops == 2
NumProcs == 2
MaxFaults == 1
MaxMonth == 1
MaxDay == 2
MaxValue == 2
MaxPoints == 3

ShopDomains == 1..NumShops
Procs == 1..NumProcs

\* ------------------------------------------------------------------ state
VARIABLES
    shops,        \* table Shop: set of [id, shopDomain, plan]
    dataSources,  \* table DataSource: set of [id, shopId, type]
    dataPoints,   \* table DailyDataPoint: set of [dataSourceId, date, variable, value]
    analyses,     \* table Analysis: function id -> [shopId, status, config, results, errorMsg, createdAt]
    nextId,       \* next fresh primary key (cuid)
    now,          \* the current calendar month
    faults,       \* number of database calls that were rejected so far
    proc,         \* per request: the position and the locals of the handler
    mergeResult   \* what a stand-alone call of mergeShopifyAndExcelData returned, or NULL

vars == <<shops, dataSources, dataPoints, analyses, nextId, now, faults, proc, mergeResult>>

\* A nullable column: NULL, or the one-element sequence holding the value.
NULL == <<>>
Some(x) == <<x>>

\* ------------------------------------------------------------------ data merger
\* The variable names this model draws data from, in the order of Array.prototype.sort
\* (UTF-16 code units).
VarNames ==
    <<"constructor", "date", "discounts", "google_ads_cost", "low_cost_ads_cost",
      "meta_ads_cost", "net_sales", "orders">>
Variables == {VarNames[i] : i \in DOMAIN VarNames}

forwardFillVars ==
    {"net_sales", "orders", "sessions", "pageviews", "online_store_visitors",
     "new_customers", "returning_customers", "add_to_carts", "line_friends", "temperature"}

\* point.date.toISOString().slice(0, 10)
DateKey(date) == 20240101 + (date \div 24)

\* The orders in which a query without orderBy may return the set S.
FindManyOrders(S) ==
    {o \in [1..Cardinality(S) -> S] : \A i, j \in 1..Cardinality(S) : o[i] = o[j] => i = j}

\* dataPoints: { orderBy: { date: "asc" } } of one data source.  Points of one source
\* with equal dates differ in their variable, so their mutual order does not matter.
PointsAsc(P) ==
    CHOOSE o \in FindManyOrders(P) : \A i, j \in 1..Cardinality(P) : i < j => o[i].date <= o[j].date

\* The nested loops "for source of dataSources / for point of source.dataPoints"
\* as one sequence of points, in iteration order.
RECURSIVE IterationFrom(_, _, _)
IterationFrom(i, sources, points) ==
    IF i > Len(sources) THEN <<>>
    ELSE PointsAsc({pt \in points : pt.dataSourceId = sources[i].id})
         \o IterationFrom(i + 1, sources, points)

IterationOrder(sources, points) == IterationFrom(1, sources, points)

\* A dateMap that keeps the first value written for a (day, variable) and adds the
\* later ones to it.
CollectSummed(pts) ==
    LET Written(k, v) == {i \in DOMAIN pts : DateKey(pts[i].date) = k /\ pts[i].variable = v}
        RECURSIVE Total(_)
        Total(I) == IF I = {} THEN 0
                    ELSE LET i == CHOOSE x \in I : TRUE IN pts[i].value + Total(I \ {i})
    IN  [k \in {DateKey(pts[i].date) : i \in DOMAIN pts} |->
            [v \in {pts[i].variable : i \in {j \in DOMAIN pts : DateKey(pts[j].date) = k}} |->
                Total(Written(k, v))]]

\* The dateMap after the loops: dateMap.get(dateKey)[point.variable] = point.value is
\* an assignment, so each (day, variable) holds the value of the last point written.
CollectDateMap(pts) ==
    LET Written(k, v) == {i \in DOMAIN pts : DateKey(pts[i].date) = k /\ pts[i].variable = v}
        Last(I)       == CHOOSE i \in I : \A j \in I : j <= i
    IN  [k \in {DateKey(pts[i].date) : i \in DOMAIN pts} |->
            [v \in {pts[i].variable : i \in {j \in DOMAIN pts : DateKey(pts[j].date) = k}} |->
                pts[Last(Written(k, v))].value]]

\* Array.from(dateMap.keys()).sort(): the i-th date is the one with i - 1 smaller dates.
SortedDates(S) ==
    [i \in 1..Cardinality(S) |-> CHOOSE x \in S : Cardinality({y \in S : y < x}) = i - 1]

\* Array.from(allVariables).sort()
SortedVariables(S) == SelectSeq(VarNames, LAMBDA v : v \in S)

\* lastValues when the fill loop reaches the i-th date: for each variable seen on an
\* earlier date, its value on the latest such date.
LastValues(dates, dateMap, i) ==
    LET Seen(v) == {j \in 1..(i - 1) : v \in DOMAIN dateMap[dates[j]]}
        Latest(J) == CHOOSE j \in J : \A k \in J : k <= j
    IN  [v \in UNION {DOMAIN dateMap[dates[j]] : j \in 1..(i - 1)} |->
            dateMap[dates[Latest(Seen(v))]][v]]

\* dayData is the object literal {}: a key it does not hold itself is looked up in
\* Object.prototype, so dayData["constructor"] is the function Object and not
\* undefined.  The function is no number: it is modelled by a value no data point has.
ObjectPrototypeKeys == {"constructor"}
InheritedValue == -1

\* A fill loop without the carry-forward branch: every gap becomes 0.
FillRowZeroOnly(dateKey, dayData, variables, lastValues) ==
    [k \in {"date"} \cup variables |->
        IF k \notin variables THEN dateKey
        ELSE IF k \in DOMAIN dayData THEN dayData[k]
        ELSE 0]

\* One pass of the fill loop for one day.  The row starts as { date: dateKey } and
\* every variable is then assigned into it, so a variable named "date" replaces the
\* date.
FillRow(dateKey, dayData, variables, lastValues) ==
    LET filled(v) ==
            IF v \in DOMAIN dayData THEN dayData[v]
            ELSE IF v \in ObjectPrototypeKeys THEN InheritedValue
            ELSE IF v \in forwardFillVars /\ v \in DOMAIN lastValues THEN lastValues[v]
            ELSE 0
    IN  [k \in {"date"} \cup variables |-> IF k \in variables THEN filled(k) ELSE dateKey]

\* mergeShopifyAndExcelData(shopId), for the order in which findMany returned the sources.
mergeShopifyAndExcelData(sources, points) ==
    IF sources = <<>>
    THEN [success |-> FALSE, data |-> <<>>, columns |-> <<>>, rowCount |-> 0]
    ELSE LET pts          == IterationOrder(sources, points)
             dateMap      == CollectDateMap(pts)
             allVariables == {pts[i].variable : i \in DOMAIN pts}
             sortedDates  == SortedDates(DOMAIN dateMap)
             mergedData   == [i \in DOMAIN sortedDates |->
                                 FillRow(sortedDates[i], dateMap[sortedDates[i]], allVariables,
                                         LastValues(sortedDates, dateMap, i))]
         IN  [success  |-> TRUE,
              data     |-> mergedData,
              columns  |-> <<"date">> \o SortedVariables(allVariables),
              rowCount |-> Len(mergedData)]

\* ------------------------------------------------------------------ numbers
\* A JavaScript number is modelled by an exact fraction <<numerator, denominator>> in
\* lowest terms with a positive denominator; the result of a division by zero (NaN,
\* Infinity) is NonFinite, and every operation on NonFinite is NonFinite again.
RECURSIVE Gcd(_, _)
Gcd(a, b) == IF b = 0 THEN a ELSE Gcd(b, a % b)

Abs(k) == IF k < 0 THEN -k ELSE k

NonFinite == <<0, 0>>
IsFinite(x) == x[2] # 0

Frac(num, den) ==
    IF den = 0 THEN NonFinite
    ELSE LET g == Gcd(Abs(num), Abs(den))
             sign == IF den < 0 THEN -1 ELSE 1
         IN  <<sign * (num \div g), sign * (den \div g)>>

Num(k) == <<k, 1>>
Zero == Num(0)
One == Num(1)

Plus(x, y) ==
    IF ~IsFinite(x) \/ ~IsFinite(y) THEN NonFinite
    ELSE Frac(x[1] * y[2] + y[1] * x[2], x[2] * y[2])
Minus(x, y) ==
    IF ~IsFinite(x) \/ ~IsFinite(y) THEN NonFinite
    ELSE Frac(x[1] * y[2] - y[1] * x[2], x[2] * y[2])
Times(x, y) ==
    IF ~IsFinite(x) \/ ~IsFinite(y) THEN NonFinite
    ELSE Frac(x[1] * y[1], x[2] * y[2])
Over(x, y) ==
    IF ~IsFinite(x) \/ ~IsFinite(y) THEN NonFinite
    ELSE Frac(x[1] * y[2], x[2] * y[1])

\* x < y; a comparison with NaN is false
Less(x, y) == IsFinite(x) /\ IsFinite(y) /\ x[1] * y[2] < y[1] * x[2]
Greater(x, y) == Less(y, x)
AtMost(x, y) == IsFinite(x) /\ IsFinite(y) /\ x[1] * y[2] <= y[1] * x[2]

\* Math.abs, Math.max, Math.min, Math.round (the nearest integer, a half rounds up)
MathAbs(x) == IF IsFinite(x) THEN <<Abs(x[1]), x[2]>> ELSE NonFinite
MathMax(x, y) ==
    IF ~IsFinite(x) \/ ~IsFinite(y) THEN NonFinite ELSE IF Less(x, y) THEN y ELSE x
MathMin(x, y) ==
    IF ~IsFinite(x) \/ ~IsFinite(y) THEN NonFinite ELSE IF Less(y, x) THEN y ELSE x
MathRound(x) ==
    IF ~IsFinite(x) THEN NonFinite ELSE Num((2 * x[1] + x[2]) \div (2 * x[2]))

\* The sum of a sequence of numbers: reduce((a, b) => a + b, 0)
RECURSIVE SumTo(_, _)
SumTo(s, n) == IF n = 0 THEN Zero ELSE Plus(SumTo(s, n - 1), s[n])
Sum(s) == SumTo(s, Len(s))

\* ------------------------------------------------------------------ regression
\* An array: the sequence with its elements computed once, when it is built.
Array(s) == s \o <<>>

\* An elimination that divides by every pivot.
neverSingular(pivot) == FALSE

\* Math.abs(pivot) < 1e-12.  A fraction of this model has a denominator below 2^31,
\* so it is below the tolerance exactly when it is 0.
NearSingular(pivot) == IsFinite(pivot) /\ pivot[1] = 0

\* The row swapped into the pivot position of column col: the first row at or below
\* col whose entry in that column has the largest magnitude.
RECURSIVE ScanMaxRow(_, _, _, _, _)
ScanMaxRow(aug, col, p, row, maxRow) ==
    IF row > p THEN maxRow
    ELSE ScanMaxRow(aug, col, p, row + 1,
                    IF Greater(MathAbs(aug[row][col]), MathAbs(aug[maxRow][col]))
                    THEN row ELSE maxRow)

MaxRow(aug, col, p) == ScanMaxRow(aug, col, p, col + 1, col)

\* One pass of the elimination loop, for column col of the augmented matrix.
EliminateColumn(aug, col, p) ==
    LET maxRow  == MaxRow(aug, col, p)
        swapped == Array([r \in 1..p |->
                       IF r = col THEN aug[maxRow] ELSE IF r = maxRow THEN aug[col] ELSE aug[r]])
        pivot   == swapped[col][col]
        pivotRow == Array([j \in 1..(p + 1) |->
                        IF j >= col THEN Over(swapped[col][j], pivot) ELSE swapped[col][j]])
    IN  IF NearSingular(pivot) THEN swapped
        ELSE Array([r \in 1..p |->
                 IF r = col THEN pivotRow
                 ELSE Array([j \in 1..(p + 1) |->
                          IF j >= col
                          THEN Minus(swapped[r][j], Times(swapped[r][col], pivotRow[j]))
                          ELSE swapped[r][j]])])

RECURSIVE EliminateFrom(_, _, _)
EliminateFrom(aug, col, p) ==
    IF col > p THEN aug ELSE EliminateFrom(EliminateColumn(aug, col, p), col + 1, p)

\* olsRegression(X, y): the normal equations (X'X) beta = X'y, solved by Gauss-Jordan
\* elimination with partial pivoting; a column without a pivot is skipped.
olsRegression(X, y) ==
    LET n   == Len(X)
        p   == Len(X[1])
        XtX == Array([i \in 1..p |-> Array([j \in 1..p |->
                   Sum([k \in 1..n |-> Times(X[k][i], X[k][j])])])])
        Xty == Array([i \in 1..p |-> Sum([k \in 1..n |-> Times(X[k][i], y[k])])])
        aug == Array([i \in 1..p |->
                   Array([j \in 1..(p + 1) |-> IF j <= p THEN XtX[i][j] ELSE Xty[i]])])
        solved == EliminateFrom(aug, 1, p)
    IN  Array([i \in 1..p |-> solved[i][p + 1]])

\* computeR2(y, yPred)
computeR2(y, yPred) ==
    LET n     == Len(y)
        meanY == Over(Sum(y), Num(n))
        sq(x) == Times(x, x)
        ssTot == Sum([i \in 1..n |-> sq(Minus(y[i], meanY))])
        ssRes == Sum([i \in 1..n |-> sq(Minus(y[i], yPred[i]))])
    IN  IF Greater(ssTot, Zero) THEN Minus(One, Over(ssRes, ssTot)) ELSE Zero

\* A test that counts every row whose observed value is not zero.
nonZero(v) == v # Zero

\* if (Math.abs(y[i]) > 0.01)
aboveEpsilon(v) == Greater(MathAbs(v), <<1, 100>>)

\* computeMAPE(y, yPred)
computeMAPE(y, yPred) ==
    LET counted == SelectSeq([i \in DOMAIN y |-> i], LAMBDA i : aboveEpsilon(y[i]))
        sum     == Sum([k \in DOMAIN counted |->
                           MathAbs(Over(Minus(y[counted[k]], yPred[counted[k]]), y[counted[k]]))])
    IN  IF Len(counted) > 0 THEN Times(Over(sum, Num(Len(counted))), Num(100)) ELSE Zero

\* ------------------------------------------------------------------ analysis runner
\* A column name as the sequence of its parts, cut so that every occurrence of
\* "_cost" is a part of its own; the names are those of VarNames and what replace and
\* the template `${ch}_cost` make of them.
Segments(name) ==
    CASE name = "google_ads_cost"   -> <<"google_ads", "_cost">>
      [] name = "meta_ads_cost"     -> <<"meta_ads", "_cost">>
      [] name = "yahoo_ads_cost"    -> <<"yahoo_ads", "_cost">>
      [] name = "low_cost_ads_cost" -> <<"low", "_cost", "_ads", "_cost">>
      [] name = "low_ads_cost"      -> <<"low", "_ads", "_cost">>
      [] name = "low_ads_cost_cost" -> <<"low", "_ads", "_cost", "_cost">>
      [] OTHER                      -> <<name>>

ColumnNames ==
    Variables \cup {"yahoo_ads_cost"}
              \cup {"google_ads", "meta_ads", "yahoo_ads", "low_ads_cost", "low_ads_cost_cost"}

\* The name with the given parts.
Join(parts) == CHOOSE name \in ColumnNames : Segments(name) = parts

\* c.endsWith("_cost")
endsWithCost(c) == Segments(c)[Len(Segments(c))] = "_cost"

\* c.replace("_cost", ""): String.prototype.replace with a string pattern removes the
\* first occurrence only.
stripCost(c) ==
    LET parts == Segments(c)
        first == CHOOSE i \in DOMAIN parts :
                     parts[i] = "_cost" /\ \A j \in 1..(i - 1) : parts[j] # "_cost"
    IN  IF \E i \in DOMAIN parts : parts[i] = "_cost"
        THEN Join([i \in 1..(Len(parts) - 1) |-> IF i < first THEN parts[i] ELSE parts[i + 1]])
        ELSE c

\* `${ch}_cost`
costKey(ch) == Join(Segments(ch) \o <<"_cost">>)

\* (row[key] as number) || 0
NumberOrZero(row, key) == IF key \in DOMAIN row THEN row[key] ELSE 0

RECURSIVE SumFirst(_, _)
SumFirst(s, n) == IF n = 0 THEN 0 ELSE s[n] + SumFirst(s, n - 1)

SumSeq(s) == SumFirst(s, Len(s))

\* The sum over the rows of (row[key] as number) || 0
SumColumn(data, key) == SumSeq([i \in DOMAIN data |-> NumberOrZero(data[i], key)])

\* const channels = costColumns.map((c) => c.replace("_cost", ""))
Channels(merged) ==
    LET costColumns == SelectSeq(merged.columns, endsWithCost)
    IN  [i \in DOMAIN costColumns |-> stripCost(costColumns[i])]

\* data.map((r) => (r[key] as number) || 0)
Column(data, key) == Array([i \in DOMAIN data |-> Num(NumberOrZero(data[i], key))])

\* Math.max(...dailyCosts)
RECURSIVE MaxTo(_, _)
MaxTo(s, n) == IF n = 1 THEN s[1] ELSE MathMax(MaxTo(s, n - 1), s[n])

\* The clamp of the elasticity: Math.max(0.01, Math.min(elasticity, 1.5))
clampElasticity(elasticity) == MathMax(<<1, 100>>, MathMin(elasticity, <<3, 2>>))

\* An estimate that reports the elasticity of the contribution itself as a percentage,
\* without the clamp and the conversion.
elasticityPct(dailyCosts, dailyContributions, totalCost) ==
    LET n           == Len(dailyCosts)
        costMean    == Over(Sum(dailyCosts), Num(n))
        contribMean == Over(Sum(dailyContributions), Num(n))
        covCC       == Sum([i \in 1..n |-> Times(Minus(dailyCosts[i], costMean),
                                                 Minus(dailyContributions[i], contribMean))])
        varCost     == Sum([i \in 1..n |-> Times(Minus(dailyCosts[i], costMean),
                                                 Minus(dailyCosts[i], costMean))])
    IN  MathRound(Times(Times(Over(covCC, varCost), Over(costMean, contribMean)), Num(100)))

\* estimateSaturation(dailyCosts, dailyContributions, totalCost)
estimateSaturation(dailyCosts, dailyContributions, totalCost) ==
    LET n           == Len(dailyCosts)
        costMean    == Over(Sum(dailyCosts), Num(n))
        contribMean == Over(Sum(dailyContributions), Num(n))
        covCC       == Sum([i \in 1..n |-> Times(Minus(dailyCosts[i], costMean),
                                                 Minus(dailyContributions[i], contribMean))])
        varCost     == Sum([i \in 1..n |-> Times(Minus(dailyCosts[i], costMean),
                                                 Minus(dailyCosts[i], costMean))])
        elasticity  == IF /\ Greater(varCost, Zero)
                          /\ Greater(costMean, Zero)
                          /\ Greater(contribMean, Zero)
                       THEN Times(Over(covCC, varCost), Over(costMean, contribMean))
                       ELSE <<1, 2>>
        clampedElasticity == clampElasticity(elasticity)
        saturation  == MathMax(Num(5), MathMin(Num(95),
                           Times(Minus(One, clampedElasticity), Num(100))))
    IN  IF n = 0 \/ AtMost(totalCost, Zero) THEN Zero
        ELSE IF AtMost(MaxTo(dailyCosts, n), Zero) THEN Zero
        ELSE MathRound(saturation)

\* Math.round(x * scale) / scale
RoundTo(x, scale) == Over(MathRound(Times(x, Num(scale))), Num(scale))

\* The position of an entry in the order in which the channels were pushed.
pushedPosition(s, i) == i

\* The position of entry i of s after s.sort((a, b) => b.contribution - a.contribution),
\* a stable sort.
SortedPosition(s, i) ==
    1 + Cardinality({j \in DOMAIN s :
                        \/ Greater(s[j].contribution, s[i].contribution)
                        \/ s[j].contribution = s[i].contribution /\ j < i})

\* The weight of a channel in the optimised budget without the division by the total.
rawWeight(marginalRoi, totalMarginalRoi) == MathMax(marginalRoi, <<1, 100>>)

\* const optWeight = Math.max(ch.marginalRoi, 0.01) / totalMarginalRoi
optWeight(marginalRoi, totalMarginalRoi) ==
    Over(MathMax(marginalRoi, <<1, 100>>), totalMarginalRoi)

\* The baseline share computed without looking at the total revenue first.
unguardedPct(baseRevenue, totalRevenue) == Times(Over(baseRevenue, totalRevenue), Num(100))

\* const basePct = totalRevenue > 0 ? (baseRevenue / totalRevenue) * 100 : 0
basePctOf(baseRevenue, totalRevenue) ==
    IF Greater(totalRevenue, Zero)
    THEN Times(Over(baseRevenue, totalRevenue), Num(100)) ELSE Zero

\* Contributions that are left as the regression gives them.
unscaled(mediaRevenue, totalPositiveContribution) == One

\* const scaleFactor: the contributions are scaled to sum to mediaRevenue (if positive)
scaleContributions(mediaRevenue, totalPositiveContribution) ==
    IF Greater(totalPositiveContribution, Zero) /\ Greater(mediaRevenue, Zero)
    THEN Over(mediaRevenue, totalPositiveContribution) ELSE One

\* The values startAnalysis computes between the merge and the update, as a record that
\* grows statement by statement: every operator below takes the values computed so far
\* and adds those of the next statements under the names they have in the code.  The
\* objects keyed by channel (coefficients, channelSpend, currentSpend, optimizedSpend)
\* are sequences in the order of their keys' insertion; the channels of the column
\* names modelled are distinct.

\* const data, n, channels, y, X
Regressors(merged, depVar) ==
    [data     |-> merged.data,
     n        |-> Len(merged.data),
     channels |-> Channels(merged),
     k        |-> Len(Channels(merged)),
     y        |-> Column(merged.data, depVar),
     X        |-> Array([i \in DOMAIN merged.data |->
                     Array([j \in 1..(Len(Channels(merged)) + 1) |->
                         IF j = 1 THEN One
                         ELSE Num(NumberOrZero(merged.data[i],
                                               costKey(Channels(merged)[j - 1])))])])]

\* const beta = olsRegression(X, y)
Fitted(a) == a @@ [beta |-> olsRegression(a.X, a.y)]

\* const intercept, coefficients, yPred; the totals
Predicted(a) ==
    a @@ [intercept    |-> a.beta[1],
          coefficients |-> Array([i \in 1..a.k |-> a.beta[i + 1]]),
          yPred        |-> Array([i \in 1..a.n |->
                               Sum([j \in 1..(a.k + 1) |-> Times(a.X[i][j], a.beta[j])])]),
          totalRevenue |-> Sum(a.y),
          channelSpend |-> Array([i \in 1..a.k |->
                               Sum(Column(a.data, costKey(a.channels[i])))]),
          totalOrders  |-> Sum(Column(a.data, "orders"))]

\* A contribution that keeps the sign of the coefficient.
signedContribution(coefficient, spend) == Times(coefficient, spend)

\* const contribution = Math.max(0, coefficients[ch] * channelSpend[ch])
rawContribution(coefficient, spend) == MathMax(Zero, Times(coefficient, spend))

\* const r2, mape, totalSpend, baseRevenue, and the raw contributions
Measured(a) ==
    a @@ [r2          |-> computeR2(a.y, a.yPred),
          mape        |-> computeMAPE(a.y, a.yPred),
          totalSpend  |-> Sum(a.channelSpend),
          baseRevenue |-> MathMax(Zero, Times(a.intercept, Num(a.n))),
          rawContributions |->
              Array([i \in 1..a.k |->
                        rawContribution(a.coefficients[i], a.channelSpend[i])])]

\* const basePct, mediaRevenue, totalPositiveContribution
Shared(a) ==
    a @@ [basePct      |-> basePctOf(a.baseRevenue, a.totalRevenue),
          mediaRevenue |-> Minus(a.totalRevenue, a.baseRevenue),
          totalPositiveContribution |-> Sum(a.rawContributions)]

\* const scaleFactor
Scaled(a) ==
    a @@ [scaleFactor |-> scaleContributions(a.mediaRevenue, a.totalPositiveContribution)]

\* A response to spend with diminishing returns: coefficient * cost / (1 + cost).
diminishingContribution(coefficient, cost) ==
    Times(coefficient, Over(cost, Plus(One, cost)))

\* return coefficients[ch] * cost
dailyContribution(coefficient, cost) == Times(coefficient, cost)

\* One pass of the loop over the channels: the ChannelResult pushed for channel i.
channelResult(a, i) ==
    LET contribution == Times(a.rawContributions[i], a.scaleFactor)
        spend        == a.channelSpend[i]
        roas         == IF Greater(spend, Zero) THEN Over(contribution, spend) ELSE Zero
        contributionShare ==
            IF Greater(a.totalPositiveContribution, Zero)
            THEN Over(a.rawContributions[i], a.totalPositiveContribution)
            ELSE Over(One, Num(a.k))
        channelOrders ==
            Times(Times(a.totalOrders, contributionShare),
                  Over(a.mediaRevenue, MathMax(a.totalRevenue, One)))
        cpa          == IF Greater(channelOrders, Zero) THEN Over(spend, channelOrders) ELSE Zero
        dailyCosts   == Column(a.data, costKey(a.channels[i]))
        dailyContributions ==
            Array([d \in 1..a.n |-> dailyContribution(a.coefficients[i], dailyCosts[d])])
        saturationPct == estimateSaturation(dailyCosts, dailyContributions, spend)
        baseMarginalRoi == Times(a.coefficients[i], a.scaleFactor)
        marginalRoi  == Times(baseMarginalRoi, Minus(One, Over(saturationPct, Num(100))))
    IN  [channel         |-> a.channels[i],
         contribution    |-> MathRound(contribution),
         contributionPct |-> IF Greater(a.totalRevenue, Zero)
                             THEN Over(MathRound(Times(Over(contribution, a.totalRevenue),
                                                       Num(1000))), Num(10))
                             ELSE Zero,
         roas            |-> RoundTo(roas, 100),
         cpa             |-> MathRound(cpa),
         totalSpend      |-> MathRound(spend),
         totalRevenue    |-> MathRound(contribution),
         saturationPct   |-> saturationPct,
         marginalRoi     |-> RoundTo(marginalRoi, 100)]

\* channelResults.push(...) for every channel
Pushed(a) == a @@ [pushed |-> Array([i \in 1..a.k |-> channelResult(a, i)])]

\* channelResults.sort((a, b) => b.contribution - a.contribution)
Sorted(a) ==
    a @@ [channelResults |->
              Array([r \in 1..a.k |->
                        a.pushed[CHOOSE i \in 1..a.k : SortedPosition(a.pushed, i) = r]])]

\* const totalMarginalRoi, and currentSpend[ch.channel] = ch.totalSpend
Weighed(a) ==
    a @@ [totalMarginalRoi |->
              Sum([r \in 1..a.k |-> MathMax(a.channelResults[r].marginalRoi, <<1, 100>>)]),
          currentSpend |-> Array([r \in 1..a.k |-> a.channelResults[r].totalSpend])]

\* optimizedSpend[ch.channel] = Math.round(totalSpend * optWeight)
Optimized(a) ==
    a @@ [optimizedSpend |->
              Array([r \in 1..a.k |->
                        MathRound(Times(a.totalSpend,
                                        optWeight(a.channelResults[r].marginalRoi,
                                                  a.totalMarginalRoi)))])]

\* coefficients[ch.channel] for the channel at position r of the sorted results
coefficientOf(a, r) ==
    a.coefficients[CHOOSE i \in 1..a.k : a.channels[i] = a.channelResults[r].channel]

\* let currentRevenue, optimizedRevenue
Reallocated(a) ==
    a @@ [currentRevenue |->
              Sum([r \in 1..a.k |->
                      MathMax(Zero, Times(Times(coefficientOf(a, r), a.currentSpend[r]),
                                          a.scaleFactor))]),
          optimizedRevenue |->
              Sum([r \in 1..a.k |->
                      MathMax(Zero, Times(Times(coefficientOf(a, r), a.optimizedSpend[r]),
                                          a.scaleFactor))])]

\* const expectedLift
Lifted(a) ==
    a @@ [expectedLift |->
              IF Greater(a.currentRevenue, Zero)
              THEN Over(MathRound(Times(Over(Minus(a.optimizedRevenue, a.currentRevenue),
                                             a.currentRevenue), Num(1000))), Num(10))
              ELSE Zero]

\* Every value of the try block of startAnalysis before the results are put together.
Analysis(merged, depVar) ==
    Lifted(Reallocated(Optimized(Weighed(Sorted(Pushed(Scaled(Shared(Measured(
        Predicted(Fitted(Regressors(merged, depVar))))))))))))

\* const results: AnalysisResults = { summary, channels, budgetOptimization }; the
\* numbers are fractions <<numerator, denominator>>, and the label of a channel is
\* left out.
ResultsOf(a) ==
    [summary |->
        [totalRevenue |-> MathRound(a.totalRevenue),
         totalSpend   |-> MathRound(a.totalSpend),
         overallRoas  |-> IF Greater(a.totalSpend, Zero)
                          THEN RoundTo(Over(a.totalRevenue, a.totalSpend), 100) ELSE Zero,
         baseRevenue  |-> MathRound(a.baseRevenue),
         basePct      |-> RoundTo(a.basePct, 10),
         r2           |-> RoundTo(a.r2, 1000),
         mape         |-> RoundTo(a.mape, 10),
         dateRange    |-> [start |-> a.data[1].date, end |-> a.data[a.n].date],
         dataPoints   |-> a.n],
     channels |-> a.channelResults,
     budgetOptimization |->
        [currentSpend   |-> [r \in DOMAIN a.channelResults |->
                                [channel |-> a.channelResults[r].channel,
                                 spend   |-> a.currentSpend[r]]],
         optimizedSpend |-> [r \in DOMAIN a.channelResults |->
                                [channel |-> a.channelResults[r].channel,
                                 spend   |-> a.optimizedSpend[r]]],
         expectedLift   |-> MathAbs(a.expectedLift)]]

AnalysisResults(merged, depVar) == ResultsOf(Analysis(merged, depVar))

\* error.message as caught by startAnalysis: the two messages it throws itself (in
\* English), and the messages of a rejected database call.
MergeFailedMsg == "data merge failed"
NoChannelsMsg == "no advertising channel data (_cost column needed)"
DatabaseErrorMsg == "database request failed"
RecordNotFoundMsg == "record to update not found"

\* The error thrown by the synchronous part of the try block after the merge, or NULL.
MergeError(merged) ==
    IF ~merged.success \/ Len(merged.data) = 0 THEN Some(MergeFailedMsg)
    ELSE IF Len(Channels(merged)) = 0 THEN Some(NoChannelsMsg)
    ELSE NULL

\* A create that leaves the status to the column default of the Analysis table.
CreatedWithDefaultStatus(shopId, config, createdAt) ==
    [shopId |-> shopId, status |-> "PENDING", config |-> config, results |-> NULL,
     errorMsg |-> NULL, createdAt |-> createdAt, completedAt |-> NULL]

\* data: { shopId, status: "RUNNING", config } of db.analysis.create
CreatedAnalysis(shopId, config, createdAt) ==
    [shopId |-> shopId, status |-> "RUNNING", config |-> config, results |-> NULL,
     errorMsg |-> NULL, createdAt |-> createdAt, completedAt |-> NULL]

\* An update that sets the status and leaves the results to a later write.
CompletedStatusOnly(record, results, completedAt) ==
    [record EXCEPT !.status = "COMPLETED", !.completedAt = Some(completedAt)]

\* data: { status: "COMPLETED", results, completedAt } of the update in the try block
CompletedUpdate(record, results, completedAt) ==
    [record EXCEPT !.status = "COMPLETED", !.results = Some(results),
                   !.completedAt = Some(completedAt)]

\* data: { status: "FAILED", errorMsg } of the update in the catch block
FailedUpdate(record, errorMsg) ==
    [record EXCEPT !.status = "FAILED", !.errorMsg = Some(errorMsg)]

\* An update addressed by shop (where: { shopId }) instead of by primary key.
UpdateTargetByShop(id, shopId) == {i \in DOMAIN analyses : analyses[i].shopId = shopId}

\* where: { id: analysis.id }
UpdateTarget(id, shopId) == {i \in DOMAIN analyses : i = id}

\* ------------------------------------------------------------------ billing
analysisPerMonth(plan) == IF plan = "FREE" THEN 1 ELSE -1

normalizePlan(plan) ==
    CASE plan \in {"PRO", "PREMIUM"}  -> "PRO"
      [] plan \in {"STARTER", "PAID"} -> "STARTER"
      [] OTHER                        -> "FREE"

\* db.analysis.count({ where: { shopId, createdAt: { gte: startOfMonth } } })
AnalysesThisMonth(shopId) ==
    Cardinality({id \in DOMAIN analyses :
                    analyses[id].shopId = shopId /\ analyses[id].createdAt >= now})

\* canRunAnalysis(shopId, plan).allowed
canRunAnalysis(shopId, plan) ==
    LET limit == analysisPerMonth(normalizePlan(plan))
    IN  IF limit = -1 THEN TRUE ELSE ~(AnalysesThisMonth(shopId) >= limit)

\* ------------------------------------------------------------------ request handlers
RouteConfig == [dep_var |-> "net_sales", date_range |-> "180d"]

NoReturn == [analysisId |-> 0, success |-> FALSE, message |-> ""]
NoMerge == [success |-> FALSE, data |-> <<>>, columns |-> <<>>, rowCount |-> 0]

IdleProc ==
    [pc |-> "idle", shopId |-> 0, plan |-> "", analysisId |-> 0, snapshot |-> {},
     merged |-> NoMerge, results |-> NULL, error |-> NULL, ret |-> NoReturn]

SourcesOf(shopId) == {s \in dataSources : s.shopId = shopId}
PointsOf(shopId) == {pt \in dataPoints : \E s \in SourcesOf(shopId) : pt.dataSourceId = s.id}

\* action of app.analysis, intent start_analysis: ensureShop(session.shop)
Request(p, d) ==
    /\ proc[p].pc = "idle"
    /\ IF \E s \in shops : s.shopDomain = d
       THEN LET existing == CHOOSE s \in shops : s.shopDomain = d
            IN  /\ proc' = [proc EXCEPT ![p].pc = "quota", ![p].shopId = existing.id,
                                        ![p].plan = existing.plan]
                /\ UNCHANGED <<shops, nextId>>
       ELSE /\ shops' = shops \cup {[id |-> nextId, shopDomain |-> d, plan |-> "FREE"]}
            /\ nextId' = nextId + 1
            /\ proc' = [proc EXCEPT ![p].pc = "quota", ![p].shopId = nextId,
                                    ![p].plan = "FREE"]
    /\ UNCHANGED <<dataSources, dataPoints, analyses, now, faults, mergeResult>>

\* const quota = await canRunAnalysis(shop.id, shop.plan); if (!quota.allowed) return
CheckQuota(p) ==
    /\ proc[p].pc = "quota"
    /\ proc' = [proc EXCEPT ![p].pc =
                    IF canRunAnalysis(proc[p].shopId, proc[p].plan) THEN "datacount"
                    ELSE "rejected"]
    /\ UNCHANGED <<shops, dataSources, dataPoints, analyses, nextId, now, faults, mergeResult>>

\* const dataCount = await db.dataSource.count(...); if (dataCount === 0) return
CountData(p) ==
    /\ proc[p].pc = "datacount"
    /\ proc' = [proc EXCEPT ![p].pc =
                    IF Cardinality(SourcesOf(proc[p].shopId)) = 0 THEN "rejected"
                    ELSE "create"]
    /\ UNCHANGED <<shops, dataSources, dataPoints, analyses, nextId, now, faults, mergeResult>>

\* startAnalysis: const analysis = await db.analysis.create(...), outside the try block.
\* The call rejects when the shop row is gone (foreign key) or the database fails.
CreateAnalysis(p) ==
    /\ proc[p].pc = "create"
    /\ \/ /\ \E s \in shops : s.id = proc[p].shopId
          /\ analyses' = [id \in DOMAIN analyses \cup {nextId} |->
                            IF id = nextId
                            THEN CreatedAnalysis(proc[p].shopId, RouteConfig, now)
                            ELSE analyses[id]]
          /\ nextId' = nextId + 1
          /\ proc' = [proc EXCEPT ![p].pc = "merge", ![p].analysisId = nextId]
          /\ UNCHANGED faults
       \/ /\ ~\E s \in shops : s.id = proc[p].shopId
          /\ proc' = [proc EXCEPT ![p].pc = "thrown"]
          /\ UNCHANGED <<analyses, nextId, faults>>
       \/ /\ faults < MaxFaults
          /\ faults' = faults + 1
          /\ proc' = [proc EXCEPT ![p].pc = "thrown"]
          /\ UNCHANGED <<analyses, nextId>>
    /\ UNCHANGED <<shops, dataSources, dataPoints, now, mergeResult>>

\* startAnalysis: await mergeShopifyAndExcelData(shopId) and the synchronous code
\* after it, up to the point where the next database call is issued.
MergeData(p) ==
    /\ proc[p].pc = "merge"
    /\ \/ \E order \in FindManyOrders(SourcesOf(proc[p].shopId)) :
            LET merged == mergeShopifyAndExcelData(order, dataPoints)
                error  == MergeError(merged)
            IN  /\ proc' = [proc EXCEPT
                        ![p].snapshot = PointsOf(proc[p].shopId),
                        ![p].merged = merged,
                        ![p].error = error,
                        ![p].results = IF error = NULL
                                       THEN Some(AnalysisResults(merged, RouteConfig.dep_var))
                                       ELSE NULL,
                        ![p].pc = IF error = NULL THEN "update" ELSE "catch"]
                /\ UNCHANGED faults
       \/ /\ faults < MaxFaults
          /\ faults' = faults + 1
          /\ proc' = [proc EXCEPT ![p].error = Some(DatabaseErrorMsg), ![p].pc = "catch"]
    /\ UNCHANGED <<shops, dataSources, dataPoints, analyses, nextId, now, mergeResult>>

\* startAnalysis: await db.analysis.update({ status: "COMPLETED", results, completedAt })
UpdateCompleted(p) ==
    /\ proc[p].pc = "update"
    /\ \/ /\ UpdateTarget(proc[p].analysisId, proc[p].shopId) # {}
          /\ analyses' = [id \in DOMAIN analyses |->
                            IF id \in UpdateTarget(proc[p].analysisId, proc[p].shopId)
                            THEN CompletedUpdate(analyses[id], proc[p].results[1], now)
                            ELSE analyses[id]]
          /\ proc' = [proc EXCEPT ![p].pc = "done",
                        ![p].ret = [analysisId |-> proc[p].analysisId, success |-> TRUE,
                                    message |-> "analysis completed"]]
          /\ UNCHANGED faults
       \/ /\ UpdateTarget(proc[p].analysisId, proc[p].shopId) = {}
          /\ proc' = [proc EXCEPT ![p].error = Some(RecordNotFoundMsg), ![p].pc = "catch"]
          /\ UNCHANGED <<analyses, faults>>
       \/ /\ faults < MaxFaults
          /\ faults' = faults + 1
          /\ proc' = [proc EXCEPT ![p].error = Some(DatabaseErrorMsg), ![p].pc = "catch"]
          /\ UNCHANGED analyses
    /\ UNCHANGED <<shops, dataSources, dataPoints, nextId, now, mergeResult>>

\* startAnalysis, catch block: await db.analysis.update({ status: "FAILED", errorMsg }).
\* When this call rejects, the rejection leaves startAnalysis.
UpdateFailed(p) ==
    /\ proc[p].pc = "catch"
    /\ \/ /\ UpdateTarget(proc[p].analysisId, proc[p].shopId) # {}
          /\ analyses' = [id \in DOMAIN analyses |->
                            IF id \in UpdateTarget(proc[p].analysisId, proc[p].shopId)
                            THEN FailedUpdate(analyses[id], proc[p].error[1])
                            ELSE analyses[id]]
          /\ proc' = [proc EXCEPT ![p].pc = "done",
                        ![p].ret = [analysisId |-> proc[p].analysisId, success |-> FALSE,
                                    message |-> proc[p].error[1]]]
          /\ UNCHANGED faults
       \/ /\ UpdateTarget(proc[p].analysisId, proc[p].shopId) = {}
          /\ proc' = [proc EXCEPT ![p].pc = "thrown"]
          /\ UNCHANGED <<analyses, faults>>
       \/ /\ faults < MaxFaults
          /\ faults' = faults + 1
          /\ proc' = [proc EXCEPT ![p].pc = "thrown"]
          /\ UNCHANGED analyses
    /\ UNCHANGED <<shops, dataSources, dataPoints, nextId, now, mergeResult>>

\* A delete of the Shop row alone, without the cascade of the foreign keys.
ShopRowDelete(d) ==
    \/ /\ \E s \in shops : s.shopDomain = d
       /\ shops' = {s \in shops : s.shopDomain # d}
       /\ UNCHANGED <<dataSources, dataPoints, analyses, nextId, now, faults, proc, mergeResult>>
    \/ /\ ~\E s \in shops : s.shopDomain = d
       /\ UNCHANGED vars

\* GDPR webhook SHOP_REDACT: deleteShopData(shop).  Deleting the Shop row cascades to
\* its DataSource rows, their DailyDataPoint rows and its Analysis rows.
ShopRedact(d) ==
    \/ /\ \E s \in shops : s.shopDomain = d
       /\ LET shop == CHOOSE s \in shops : s.shopDomain = d
              gone == {s.id : s \in SourcesOf(shop.id)}
          IN  /\ shops' = shops \ {shop}
              /\ dataSources' = {s \in dataSources : s.shopId # shop.id}
              /\ dataPoints' = {pt \in dataPoints : pt.dataSourceId \notin gone}
              /\ analyses' = [id \in {i \in DOMAIN analyses : analyses[i].shopId # shop.id} |->
                                 analyses[id]]
       /\ UNCHANGED <<nextId, now, faults, proc, mergeResult>>
    \/ /\ ~\E s \in shops : s.shopDomain = d
       /\ UNCHANGED vars

\* The calendar month changes.
Tick ==
    /\ now < MaxMonth
    /\ now' = now + 1
    /\ UNCHANGED <<shops, dataSources, dataPoints, analyses, nextId, faults, proc, mergeResult>>

\* ------------------------------------------------------------------ initial data
\* What a shop has stored when the requests start; source ids are 10 * shop + j.
\*   0: Shopify sales on two days and an uploaded sheet with one cost column
\*   1: Shopify sales only (no cost column)
\*   2: a Shopify data source that holds no data point yet
\*   3: two SHOPIFY_AUTO data sources that both hold net_sales of the same day
\*      (two first order webhooks that ran their findFirst before either create),
\*      and an uploaded sheet with one cost column
Source(d, j, type) == [id |-> 10 * d + j, shopId |-> d, type |-> type]
Point(d, j, date, variable, value) ==
    [dataSourceId |-> 10 * d + j, date |-> date, variable |-> variable, value |-> value]

StoredSources(d, kind) ==
    CASE kind = 0 -> {Source(d, 1, "SHOPIFY_AUTO"), Source(d, 2, "EXCEL_UPLOAD")}
      [] kind = 1 -> {Source(d, 1, "SHOPIFY_AUTO")}
      [] kind = 2 -> {Source(d, 1, "SHOPIFY_AUTO")}
      [] OTHER    -> {Source(d, 1, "SHOPIFY_AUTO"), Source(d, 2, "EXCEL_UPLOAD"),
                      Source(d, 3, "SHOPIFY_AUTO")}

StoredPoints(d, kind) ==
    CASE kind = 0 -> {Point(d, 1, 0, "net_sales", 2), Point(d, 1, 24, "net_sales", 1),
                      Point(d, 2, 0, "google_ads_cost", 1), Point(d, 2, 36, "google_ads_cost", 2)}
      [] kind = 1 -> {Point(d, 1, 0, "net_sales", 2), Point(d, 1, 0, "orders", 1)}
      [] kind = 2 -> {}
      [] OTHER    -> {Point(d, 1, 0, "net_sales", 1), Point(d, 3, 0, "net_sales", 2),
                      Point(d, 2, 0, "google_ads_cost", 1)}

Init ==
    /\ shops = {[id |-> d, shopDomain |-> d, plan |-> IF d % 2 = 1 THEN "FREE" ELSE "PRO"] :
                    d \in ShopDomains}
    /\ \E k \in 0..3 :
          /\ dataSources = UNION {StoredSources(d, (d + k) % 4) : d \in ShopDomains}
          /\ dataPoints = UNION {StoredPoints(d, (d + k) % 4) : d \in ShopDomains}
    /\ analyses = [id \in {} |-> 0]
    /\ nextId = 100
    /\ now = 0
    /\ faults = 0
    /\ proc = [p \in Procs |-> IdleProc]
    /\ mergeResult = NULL

Next ==
    \/ \E p \in Procs, d \in ShopDomains : Request(p, d)
    \/ \E p \in Procs : CheckQuota(p)
    \/ \E p \in Procs : CountData(p)
    \/ \E p \in Procs : CreateAnalysis(p)
    \/ \E p \in Procs : MergeData(p)
    \/ \E p \in Procs : UpdateCompleted(p)
    \/ \E p \in Procs : UpdateFailed(p)
    \/ \E d \in ShopDomains : ShopRedact(d)
    \/ Tick

Spec == Init /\ [][Next]_vars

\* A database call of startAnalysis other than the merge query, answered.
RunStep ==
    \E p \in Procs : CreateAnalysis(p) \/ UpdateCompleted(p) \/ UpdateFailed(p)

MergeStep == \E p \in Procs : MergeData(p)

\* MergeData(p) can be taken exactly when run p awaits the merge query, and taking it
\* always changes proc[p].pc: this is ENABLED <<MergeStep>>_vars as a state predicate.
MergeAwaited == \E p \in Procs : proc[p].pc = "merge"

\* The analysis runs are scheduled: while a started run awaits a database call, some
\* awaited call is eventually answered.  Requests, webhooks and the calendar are not
\* forced.  The second conjunct is WF_vars(MergeStep) with ENABLED written out.
FairSpec ==
    /\ Spec
    /\ WF_vars(RunStep)
    /\ ([]<>(~MergeAwaited) \/ []<><<MergeStep>>_vars)

\* ------------------------------------------------------------------ the merge alone
\* mergeShopifyAndExcelData applied to the stored data of one shop.  The shop has any
\* of a SHOPIFY_AUTO and an EXCEL_UPLOAD data source and at most MaxPoints data
\* points, on the half days 0..MaxDay (two timestamps of the first day, then one per
\* day), with values 1..MaxValue.
MergeShop == 1

\* The variables saveExcelData does not store: they come from Shopify.
shopifyVars ==
    {"net_sales", "orders", "sessions", "pageviews", "new_customers",
     "returning_customers", "online_store_visitors", "add_to_carts"}

\* The variables a data source of the given type can hold: the order webhook writes
\* net_sales, orders and discounts; an uploaded sheet stores every column after the
\* first whose header is not in shopifyVars.
StorableVariables(type) ==
    IF type = "SHOPIFY_AUTO" THEN {"net_sales", "discounts"}
    ELSE {"constructor", "date", "discounts", "google_ads_cost"} \ shopifyVars

MergeSources == {Source(MergeShop, 1, "SHOPIFY_AUTO"), Source(MergeShop, 2, "EXCEL_UPLOAD")}

MergeUniverse ==
    {[dataSourceId |-> s.id, date |-> 12 * h, variable |-> v, value |-> x] :
        s \in MergeSources, h \in 0..MaxDay, v \in Variables, x \in 1..MaxValue}

NoPoint == [dataSourceId |-> 0, date |-> 0, variable |-> "", value |-> 0]

\* @@unique([dataSourceId, date, variable]), the foreign key to DataSource, and what
\* the writers store in a source of its type.
WellStored(S, P) ==
    /\ \A a, b \in P :
          (a.dataSourceId = b.dataSourceId /\ a.date = b.date /\ a.variable = b.variable)
          => a = b
    /\ \A a \in P : \E s \in S : s.id = a.dataSourceId /\ a.variable \in StorableVariables(s.type)

MergeInit ==
    /\ shops = {[id |-> MergeShop, shopDomain |-> MergeShop, plan |-> "FREE"]}
    /\ \E S \in SUBSET MergeSources, t \in [1..MaxPoints -> MergeUniverse \cup {NoPoint}] :
          LET P == {t[i] : i \in 1..MaxPoints} \ {NoPoint}
          IN  /\ WellStored(S, P)
              /\ dataSources = S
              /\ dataPoints = P
    /\ analyses = [id \in {} |-> 0]
    /\ nextId = 100
    /\ now = 0
    /\ faults = 0
    /\ proc = [p \in Procs |-> IdleProc]
    /\ mergeResult = NULL

\* await mergeShopifyAndExcelData(shopId)
Merge ==
    /\ mergeResult = NULL
    /\ \E order \in FindManyOrders(SourcesOf(MergeShop)) :
          mergeResult' = Some(mergeShopifyAndExcelData(order, dataPoints))
    /\ UNCHANGED <<shops, dataSources, dataPoints, analyses, nextId, now, faults, proc>>

MergeNext == Merge

MergeSpec == MergeInit /\ [][MergeNext]_vars

\* ------------------------------------------------------------------ the analysis alone
\* The synchronous part of startAnalysis as a function of the merged table: the tables
\* are those mergeShopifyAndExcelData returns for up to MaxRows consecutive days, the
\* columns of one of TableColumns and amounts up to MaxAmount; and the tables of three
\* channels in which the spend of meta_ads is tied to that of google_ads by a fixed
\* ratio.
MaxRows == 3
MaxAmount == 2
BudgetRatio == 2

AnalysisProc == 1

TableColumns ==
    { <<"net_sales">>,
      <<"google_ads_cost", "net_sales">>,
      <<"low_cost_ads_cost", "net_sales">>,
      <<"google_ads_cost", "meta_ads_cost", "net_sales">>,
      <<"google_ads_cost", "net_sales", "orders">> }

TiedColumns == <<"google_ads_cost", "meta_ads_cost", "net_sales", "yahoo_ads_cost">>

\* The value mergeShopifyAndExcelData returns for the given cells.
MergedTable(variables, cells) ==
    LET names == {variables[j] : j \in DOMAIN variables}
        data  == [i \in DOMAIN cells |->
                     [k \in {"date"} \cup names |->
                         IF k \in names THEN cells[i][k] ELSE DateKey(24 * (i - 1))]]
    IN  [success |-> TRUE, data |-> data, columns |-> <<"date">> \o variables,
         rowCount |-> Len(data)]

AnalysisInit ==
    /\ shops = {[id |-> MergeShop, shopDomain |-> MergeShop, plan |-> "FREE"]}
    /\ dataSources = {}
    /\ dataPoints = {}
    /\ analyses = [id \in {} |-> 0]
    /\ nextId = 100
    /\ now = 0
    /\ faults = 0
    /\ proc = [p \in Procs |-> IdleProc]
    /\ \/ \E variables \in TableColumns, n \in 1..MaxRows :
             \E cells \in [1..n -> [{variables[j] : j \in DOMAIN variables} -> 0..MaxAmount]] :
                 mergeResult = Some(MergedTable(variables, cells))
       \/ \E n \in 1..MaxRows :
             \E cells \in [1..n -> [{"google_ads_cost", "net_sales", "yahoo_ads_cost"}
                                        -> 0..MaxAmount]] :
                 mergeResult =
                     Some(MergedTable(TiedColumns,
                              [i \in 1..n |->
                                  [k \in {TiedColumns[j] : j \in DOMAIN TiedColumns} |->
                                      IF k = "meta_ads_cost"
                                      THEN BudgetRatio * cells[i]["google_ads_cost"]
                                      ELSE cells[i][k]]]))

\* startAnalysis from the return of the merge to the COMPLETED update (or the throw).
Analyse ==
    /\ proc[AnalysisProc].pc = "idle"
    /\ LET merged == mergeResult[1]
           error  == MergeError(merged)
       IN  proc' = [proc EXCEPT
                       ![AnalysisProc].merged = merged,
                       ![AnalysisProc].error = error,
                       ![AnalysisProc].results =
                           IF error = NULL
                           THEN Some(AnalysisResults(merged, RouteConfig.dep_var))
                           ELSE NULL,
                       ![AnalysisProc].pc = IF error = NULL THEN "update" ELSE "catch"]
    /\ UNCHANGED <<shops, dataSources, dataPoints, analyses, nextId, now, faults, mergeResult>>

AnalysisNext == Analyse

AnalysisSpec == AnalysisInit /\ [][AnalysisNext]_vars

(***************************************************************************)
(* The error measure alone: computeMAPE applied to observed and predicted  *)
(* values on both sides of the epsilon of 0.01.                            *)
(***************************************************************************)
MaxObserved == 2

ObservedValues == {<<-1, 1>>, Zero, <<1, 200>>, <<1, 100>>, <<1, 50>>, One}
PredictedValues == {<<-1, 1>>, Zero, <<1, 100>>, One}

MapeInit ==
    /\ shops = {[id |-> MergeShop, shopDomain |-> MergeShop, plan |-> "FREE"]}
    /\ dataSources = {}
    /\ dataPoints = {}
    /\ analyses = [id \in {} |-> 0]
    /\ nextId = 100
    /\ now = 0
    /\ faults = 0
    /\ proc = [p \in Procs |-> IdleProc]
    /\ \E n \in 0..MaxObserved :
          \E y \in [1..n -> ObservedValues], yPred \in [1..n -> PredictedValues] :
              mergeResult = Some([y |-> y, yPred |-> yPred])

\* const mape = computeMAPE(y, yPred)
Measure ==
    /\ proc[AnalysisProc].pc = "idle"
    /\ proc' = [proc EXCEPT
                   ![AnalysisProc].results =
                       Some(computeMAPE(mergeResult[1].y, mergeResult[1].yPred)),
                   ![AnalysisProc].pc = "update"]
    /\ UNCHANGED <<shops, dataSources, dataPoints, analyses, nextId, now, faults, mergeResult>>

MapeNext == Measure

MapeSpec == MapeInit /\ [][MapeNext]_vars

(***************************************************************************)
(* The orders/create webhook: processOrderWebhook, one step per awaited    *)
(* query, run by several deliveries at once.                               *)
(***************************************************************************)
WebhookShop == 1

Metrics == <<"net_sales", "orders", "discounts">>

\* The payloads delivered: created_at as the hour of the order, prices as strings.
CreatedAts == {6, 30}
Subtotals == {"1", "2"}
Discounts == {"0"}

\* parseFloat(s) || 0 for the price strings of the payloads
parseFloatOrZero(s) ==
    CASE s = "1" -> 1
      [] s = "2" -> 2
      [] OTHER   -> 0

\* new Date(created_at.split("T")[0] + "T00:00:00Z")
MidnightOf(created_at) == 24 * (created_at \div 24)

IdleWebhook ==
    [pc |-> "idle", shopId |-> 0, dataSourceId |-> 0, date |-> 0, values |-> <<0, 0, 0>>,
     i |-> 1, existing |-> NULL]

\* What the shop's SHOPIFY_AUTO source (if it has one) holds before the deliveries.
PriorSource == Source(WebhookShop, 1, "SHOPIFY_AUTO")
PriorPoints ==
    {Point(WebhookShop, 1, 0, "net_sales", 2), Point(WebhookShop, 1, 0, "orders", 1),
     Point(WebhookShop, 1, 0, "discounts", 1)}

WebhookInit ==
    /\ shops = {[id |-> WebhookShop, shopDomain |-> WebhookShop, plan |-> "FREE"]}
    /\ \/ dataSources = {} /\ dataPoints = {}
       \/ dataSources = {PriorSource} /\ dataPoints = PriorPoints
    /\ analyses = [id \in {} |-> 0]
    /\ nextId = 100
    /\ now = 0
    /\ faults = 0
    /\ proc = [p \in Procs |-> IdleWebhook]
    /\ mergeResult = NULL

\* authenticate.webhook, then db.shop.findUnique({ where: { shopDomain } })
Receive(p, d, created_at, subtotal_price, total_discounts) ==
    /\ proc[p].pc = "idle"
    /\ proc' = [proc EXCEPT ![p] =
                   IF \E s \in shops : s.shopDomain = d
                   THEN [@ EXCEPT !.pc = "source",
                                  !.shopId = (CHOOSE s \in shops : s.shopDomain = d).id,
                                  !.date = MidnightOf(created_at),
                                  !.values = <<parseFloatOrZero(subtotal_price), 1,
                                               parseFloatOrZero(total_discounts)>>]
                   ELSE [@ EXCEPT !.pc = "done"]]
    /\ UNCHANGED <<shops, dataSources, dataPoints, analyses, nextId, now, faults, mergeResult>>

\* db.dataSource.findFirst({ where: { shopId, type: "SHOPIFY_AUTO" } })
FindSource(p) ==
    /\ proc[p].pc = "source"
    /\ LET found == {src \in dataSources :
                        src.shopId = proc[p].shopId /\ src.type = "SHOPIFY_AUTO"}
       IN  IF found = {}
           THEN proc' = [proc EXCEPT ![p].pc = "create"]
           ELSE \E src \in found :
                    proc' = [proc EXCEPT ![p].pc = "read", ![p].dataSourceId = src.id]
    /\ UNCHANGED <<shops, dataSources, dataPoints, analyses, nextId, now, faults, mergeResult>>

\* db.dataSource.create(...)
CreateSource(p) ==
    /\ proc[p].pc = "create"
    /\ dataSources' = dataSources \cup
                          {[id |-> nextId, shopId |-> proc[p].shopId, type |-> "SHOPIFY_AUTO"]}
    /\ nextId' = nextId + 1
    /\ proc' = [proc EXCEPT ![p].pc = "read", ![p].dataSourceId = nextId]
    /\ UNCHANGED <<shops, dataPoints, analyses, now, faults, mergeResult>>

\* The stored point of the unique key (dataSourceId, date, variable), if any.
PointAt(dataSourceId, date, variable) ==
    {pt \in dataPoints :
        pt.dataSourceId = dataSourceId /\ pt.date = date /\ pt.variable = variable}

\* const existing = await db.dailyDataPoint.findUnique(...)
ReadExisting(p) ==
    /\ proc[p].pc = "read"
    /\ LET found == PointAt(proc[p].dataSourceId, proc[p].date, Metrics[proc[p].i])
       IN  proc' = [proc EXCEPT
                       ![p].pc = "upsert",
                       ![p].existing = IF found = {} THEN NULL
                                       ELSE Some((CHOOSE pt \in found : TRUE).value)]
    /\ UNCHANGED <<shops, dataSources, dataPoints, analyses, nextId, now, faults, mergeResult>>

\* update: { value: (existing?.value || 0) + value }
updatedValue(stored, existing, value) ==
    (IF existing = NULL THEN 0 ELSE existing[1]) + value

\* await db.dailyDataPoint.upsert(...), then the next metric or the end of the loop
Upsert(p) ==
    /\ proc[p].pc = "upsert"
    /\ LET variable == Metrics[proc[p].i]
           value    == proc[p].values[proc[p].i]
           found    == PointAt(proc[p].dataSourceId, proc[p].date, variable)
       IN  dataPoints' =
               IF found = {}
               THEN dataPoints \cup
                        {[dataSourceId |-> proc[p].dataSourceId, date |-> proc[p].date,
                          variable |-> variable, value |-> value]}
               ELSE (dataPoints \ found) \cup
                        {[pt EXCEPT !.value = updatedValue(pt.value, proc[p].existing, value)] :
                             pt \in found}
    /\ proc' = [proc EXCEPT
                   ![p].pc = IF proc[p].i < Len(Metrics) THEN "read" ELSE "touch",
                   ![p].i = IF proc[p].i < Len(Metrics) THEN proc[p].i + 1 ELSE proc[p].i,
                   ![p].existing = NULL]
    /\ UNCHANGED <<shops, dataSources, analyses, nextId, now, faults, mergeResult>>

\* db.dataSource.update({ data: { lastSync } }) and the Response of the route
TouchSource(p) ==
    /\ proc[p].pc = "touch"
    /\ proc' = [proc EXCEPT ![p].pc = "done"]
    /\ UNCHANGED <<shops, dataSources, dataPoints, analyses, nextId, now, faults, mergeResult>>

WebhookNext ==
    \/ \E p \in Procs, d \in ShopDomains, created_at \in CreatedAts,
          subtotal_price \in Subtotals, total_discounts \in Discounts :
              Receive(p, d, created_at, subtotal_price, total_discounts)
    \/ \E p \in Procs : FindSource(p)
    \/ \E p \in Procs : CreateSource(p)
    \/ \E p \in Procs : ReadExisting(p)
    \/ \E p \in Procs : Upsert(p)
    \/ \E p \in Procs : TouchSource(p)

WebhookSpec == WebhookInit /\ [][WebhookNext]_vars

\* ------------------------------------------------------------------ claims
\* Every primary key a request can draw: one for a re-created shop, one for its analysis.
AnalysisIds == 100..(100 + 2 * NumProcs)

StatusOf(id) == analyses[id].status
Started(p) == proc[p].analysisId # 0
Stored(p) == proc[p].analysisId \in DOMAIN analyses
Finished(p) == proc[p].pc \in {"done", "thrown"}

C2_ResultsIffCompleted ==
    \A id \in DOMAIN analyses : (analyses[id].results # NULL) <=> (StatusOf(id) = "COMPLETED")

C2_Witness ==
    /\ \E id \in DOMAIN analyses : StatusOf(id) = "COMPLETED" /\ analyses[id].results # NULL
    /\ \E id \in DOMAIN analyses : StatusOf(id) = "FAILED" /\ analyses[id].results = NULL

\* C3: startAnalysis never throws: once called it returns a value, and when the value
\* says success = false the record is FAILED.
C3_NeverThrows ==
    \A p \in Procs :
        /\ proc[p].pc # "thrown"
        /\ (proc[p].pc = "done" /\ ~proc[p].ret.success /\ Stored(p))
              => StatusOf(proc[p].analysisId) = "FAILED"

\* C4: a run whose merged dataset is empty or has no _cost column ends FAILED with an
\* error message, returns success = false, computes no result and stores none.
C4_EmptyDataFails ==
    \A p \in Procs :
        (Finished(p) /\ proc[p].error \in {Some(MergeFailedMsg), Some(NoChannelsMsg)})
        => /\ proc[p].pc = "done"
           /\ ~proc[p].ret.success
           /\ proc[p].ret.message # ""
           /\ proc[p].results = NULL
           /\ Stored(p) => /\ StatusOf(proc[p].analysisId) = "FAILED"
                           /\ analyses[proc[p].analysisId].errorMsg # NULL
                           /\ analyses[proc[p].analysisId].results = NULL

\* C5: no record stays RUNNING forever: every record is again and again COMPLETED,
\* FAILED or deleted with its shop (COMPLETED and FAILED are never left, by C1).
C5_RunningEnds ==
    \A id \in AnalysisIds :
        []<>(id \notin DOMAIN analyses \/ StatusOf(id) \in {"COMPLETED", "FAILED"})

\* C6: two runs of one shop that read the same stored data points (with the same
\* config) compute the same results.
C6_Deterministic ==
    \A p, q \in Procs :
        (/\ proc[p].results # NULL
         /\ proc[q].results # NULL
         /\ proc[p].shopId = proc[q].shopId
         /\ proc[p].snapshot = proc[q].snapshot)
        => proc[p].results = proc[q].results

\* C7: the record of a run holds what that run alone produces from the data it read,
\* whatever the other runs do: RUNNING without results until the run's own update,
\* then COMPLETED with the results computed from its merged rows, or FAILED with its
\* error message.
C7_Independent ==
    \A p \in Procs :
        (Started(p) /\ Stored(p)) =>
            LET record == analyses[proc[p].analysisId]
            IN  /\ record.shopId = proc[p].shopId
                /\ proc[p].pc \in {"merge", "update", "catch", "thrown"}
                      => /\ record.status = "RUNNING"
                         /\ record.results = NULL
                         /\ record.errorMsg = NULL
                /\ (proc[p].pc = "done" /\ proc[p].ret.success)
                      => /\ record.status = "COMPLETED"
                         /\ MergeError(proc[p].merged) = NULL
                         /\ record.results =
                               Some(AnalysisResults(proc[p].merged, RouteConfig.dep_var))
                         /\ record.errorMsg = NULL
                /\ (proc[p].pc = "done" /\ ~proc[p].ret.success)
                      => /\ record.status = "FAILED"
                         /\ record.results = NULL
                         /\ record.errorMsg = proc[p].error
                         /\ proc[p].error \in {Some(MergeFailedMsg), Some(NoChannelsMsg)}
                               => proc[p].error = MergeError(proc[p].merged)

\* Two runs of one shop overlap: the later created one is done while the earlier
\* created one still waits for its update, and both records are stored.
C7_Witness ==
    \E p, q \in Procs :
        /\ proc[p].pc = "done" /\ proc[p].ret.success /\ Stored(p)
        /\ proc[q].pc \in {"update", "catch"} /\ Started(q) /\ Stored(q)
        /\ proc[q].analysisId < proc[p].analysisId
        /\ proc[p].shopId = proc[q].shopId

\* C8: a shop on the Free plan has at most one analysis created in the current month.
C8_FreeQuota ==
    \A s \in shops :
        normalizePlan(s.plan) = "FREE" => AnalysesThisMonth(s.id) <= 1

\* The calendar days and the variables of the data points the merge reads.
InputDays == {DateKey(pt.date) : pt \in PointsOf(MergeShop)}
InputVariables == {pt.variable : pt \in PointsOf(MergeShop)}

\* C9: the rows returned by mergeShopifyAndExcelData are in strictly ascending date
\* order with no date twice, and every row has the same keys: the date and every
\* variable of the input, none missing.
C9_MergedRowInvariant ==
    mergeResult # NULL =>
        LET data == mergeResult[1].data
        IN  /\ \A i, j \in DOMAIN data : i < j => data[i].date < data[j].date
            /\ \A i \in DOMAIN data : DOMAIN data[i] = {"date"} \cup InputVariables

\* C10: mergeShopifyAndExcelData returns one row per calendar day of the input: as
\* many rows as days, the dates of the rows are the days of the input, and the
\* columns are the date and the variables the data points hold (a data source without
\* data points adds none).
C10_OneRowPerDay ==
    (mergeResult # NULL /\ dataSources # {}) =>
        LET data == mergeResult[1].data
        IN  /\ mergeResult[1].success
            /\ Len(data) = Cardinality(InputDays)
            /\ mergeResult[1].rowCount = Len(data)
            /\ {data[i].date : i \in DOMAIN data} = InputDays
            /\ {mergeResult[1].columns[i] : i \in DOMAIN mergeResult[1].columns}
                  = {"date"} \cup InputVariables

\* The calendar day of the i-th merged row (the rows follow the sorted days), and
\* whether some data point holds variable v on a day.
RowDay(i) == SortedDates(InputDays)[i]
Observed(day, v) == \E pt \in PointsOf(MergeShop) : DateKey(pt.date) = day /\ pt.variable = v

\* C11: a variable outside the carry-forward set has value 0 on every merged day on
\* which no data point holds it, whatever earlier days held.
C11_ZeroFill ==
    mergeResult # NULL =>
        LET data == mergeResult[1].data
        IN  \A i \in DOMAIN data, v \in InputVariables \ forwardFillVars :
                ~Observed(RowDay(i), v) => data[i][v] = 0

Analysed == proc[AnalysisProc].pc = "update"
Table == proc[AnalysisProc].merged
Results == proc[AnalysisProc].results[1]
Computed == Analysis(Table, RouteConfig.dep_var)
CostColumns == SelectSeq(Table.columns, endsWithCost)

\* C13: the channels are the merged columns ending in "_cost", in order; the id of
\* column k is k without that suffix, so that id + "_cost" is k again, and the spend
\* reported for the channel is the sum of column k.
C13_ChannelPerCostColumn ==
    Analysed =>
        LET a == Computed
        IN  /\ Len(a.channels) = Len(CostColumns)
            /\ \A i \in DOMAIN CostColumns :
                  /\ costKey(a.channels[i]) = CostColumns[i]
                  /\ a.channelSpend[i] = Num(SumColumn(Table.data, CostColumns[i]))


\* C14: the optimised budget reallocates the current one: the optimised spends sum to
\* the sum of the current spends, up to one unit of rounding per channel.
SpendTotal(spends) == Sum([r \in DOMAIN spends |-> spends[r].spend])

C14_BudgetPreserved ==
    Analysed =>
        AtMost(MathAbs(Minus(SpendTotal(Results.budgetOptimization.optimizedSpend),
                             SpendTotal(Results.budgetOptimization.currentSpend))),
               Num(Len(Results.channels)))

\* Two channels with spend, and a budget that moves from one to the other.
C14_Witness ==
    /\ Analysed
    /\ Len(Results.channels) = 2
    /\ \A r \in 1..2 : Greater(Results.budgetOptimization.currentSpend[r].spend, Zero)
    /\ \E r \in 1..2 : Results.budgetOptimization.optimizedSpend[r].spend
                           # Results.budgetOptimization.currentSpend[r].spend

\* The daily spend of the channel reported at position r of the results.
DailySpend(r) == Column(Table.data, costKey(Results.channels[r].channel))

\* C15: a channel whose daily spend is the same positive amount on every day (no
\* variance of spend) is reported with saturationPct 0.
C15_ConstantSpendUnsaturated ==
    Analysed =>
        \A r \in DOMAIN Results.channels :
            (/\ Greater(DailySpend(r)[1], Zero)
             /\ \A i \in DOMAIN DailySpend(r) : DailySpend(r)[i] = DailySpend(r)[1])
            => Results.channels[r].saturationPct = Zero

\* C16: the saturationPct of every channel is 0 or a whole number from 5 to 95.
C16_SaturationRange ==
    Analysed =>
        \A r \in DOMAIN Results.channels :
            LET pct == Results.channels[r].saturationPct
            IN  \/ pct = Zero
                \/ /\ IsFinite(pct)
                   /\ pct[2] = 1
                   /\ AtMost(Num(5), pct)
                   /\ AtMost(pct, Num(95))

\* Two channels with spend, one with an estimated elasticity (5) and one with the
\* fallback elasticity (50).
C16_Witness ==
    /\ Analysed
    /\ Len(Results.channels) = 2
    /\ Results.channels[1].saturationPct = Num(5)
    /\ Results.channels[2].saturationPct = Num(50)

\* The sum of the contributionPct of the channels.
ContributionPctTotal ==
    Sum([r \in DOMAIN Results.channels |-> Results.channels[r].contributionPct])

\* Half a unit of the last digit for each of the rounded percentages involved.
PctTolerance == Over(Num(Len(Results.channels) + 1), Num(20))

NumericFields(results) ==
    {results.summary.totalRevenue, results.summary.totalSpend, results.summary.overallRoas,
     results.summary.baseRevenue, results.summary.basePct, results.summary.r2,
     results.summary.mape, results.budgetOptimization.expectedLift}
    \cup UNION {{results.channels[r].contribution, results.channels[r].contributionPct,
                 results.channels[r].roas, results.channels[r].cpa,
                 results.channels[r].totalSpend, results.channels[r].totalRevenue,
                 results.channels[r].saturationPct, results.channels[r].marginalRoi,
                 results.budgetOptimization.currentSpend[r].spend,
                 results.budgetOptimization.optimizedSpend[r].spend} :
                r \in DOMAIN results.channels}

\* The dependent variable is 0 on every row.
NoRevenue == \A i \in DOMAIN mergeResult[1].data : mergeResult[1].data[i]["net_sales"] = 0

\* C18: when the dependent variable is 0 on every row the run reaches its COMPLETED
\* update, with basePct 0 and every number of the result finite.
C18_NoRevenueIsFinite ==
    (NoRevenue /\ proc[AnalysisProc].pc # "idle" /\ Len(CostColumns) > 0) =>
        /\ Analysed
        /\ Results.summary.basePct = Zero
        /\ \A x \in NumericFields(Results) : IsFinite(x)

\* No revenue on three days, with spend on a channel and orders.
C18_Witness ==
    /\ Analysed
    /\ NoRevenue
    /\ Len(Table.data) = 3
    /\ \E r \in DOMAIN Results.channels : Greater(Results.channels[r].totalSpend, Zero)
    /\ \E i \in DOMAIN Table.data : NumberOrZero(Table.data[i], "orders") > 0

\* The dependent variable takes more than one value.
Varies ==
    LET y == Column(Table.data, RouteConfig.dep_var)
    IN  \E i \in DOMAIN y : y[i] # y[1]

\* The points (spend[i], revenue[i]) lie on one line revenue = c + s * spend.
ExactlyLinear(spend, revenue) ==
    \A i, j, k \in DOMAIN spend :
        /\ spend[i] = spend[j] => revenue[i] = revenue[j]
        /\ Times(Minus(revenue[i], revenue[j]), Minus(spend[i], spend[k]))
               = Times(Minus(revenue[i], revenue[k]), Minus(spend[i], spend[j]))

\* A table of two channels a and b (positions among the channels) in which the revenue
\* is an exact linear function of the spend of a and b has no spend at all.
OneChannelExplains(a, b) ==
    /\ Analysed
    /\ Len(CostColumns) = 2
    /\ a # b
    /\ ExactlyLinear(Column(Table.data, CostColumns[a]),
                     Column(Table.data, RouteConfig.dep_var))
    /\ \A i \in DOMAIN Table.data : NumberOrZero(Table.data[i], CostColumns[b]) = 0

\* What the claim expects of such a table.
ZeroChannelFit(b) ==
    LET computed == Computed
    IN  /\ computed.coefficients[b] = Zero
        /\ \A r \in DOMAIN Results.channels :
              Results.channels[r].channel = computed.channels[b]
                  => Results.channels[r].contribution = Zero
        /\ Results.summary.r2 = One

\* C19 (as stated): two channels, the revenue an exact linear function of the spend of
\* A, no spend of B on any day: the coefficient of B is 0, the contribution of B is 0
\* and r2 is 1.
C19_ZeroChannel ==
    \A a, b \in 1..2 : OneChannelExplains(a, b) => ZeroChannelFit(b)

\* C19 (amended): the same for the tables in which the revenue is not the same on
\* every day; with a constant revenue r2 is 0.
C19_ZeroChannelVarying ==
    \A a, b \in 1..2 :
        OneChannelExplains(a, b) =>
            IF Varies THEN ZeroChannelFit(b)
            ELSE Computed.coefficients[b] = Zero /\ Results.summary.r2 = Zero

\* Three days on which the revenue follows the spend of the first channel with a
\* slope, and the second channel spends nothing.
C19_Witness ==
    /\ OneChannelExplains(1, 2)
    /\ Len(Table.data) = 3
    /\ Varies
    /\ \A i, j \in DOMAIN Table.data :
          i # j => Table.data[i][CostColumns[1]] # Table.data[j][CostColumns[1]]

\* C20: r2 lies between 0 and 1 whenever the dependent variable varies, also when a
\* column was skipped as near-singular; it is 0 when the dependent variable is constant.
C20_R2Range ==
    Analysed =>
        IF Varies
        THEN AtMost(Zero, Results.summary.r2) /\ AtMost(Results.summary.r2, One)
        ELSE Results.summary.r2 = Zero

\* The rows of the four tables that belong to the shop with primary key id.
SourcesIn(sources, id) == {src \in sources : src.shopId = id}
PointsIn(points, sources, id) ==
    {pt \in points : \E src \in SourcesIn(sources, id) : pt.dataSourceId = src.id}
AnalysesIn(table, id) == {i \in DOMAIN table : table[i].shopId = id}

\* C21: a SHOP_REDACT for a shop that exists leaves no Shop, DataSource,
\* DailyDataPoint or Analysis row of that shop and leaves the rows of every other
\* shop as they were; for a shop that is not stored it changes nothing.
C21_RedactDeletesShop ==
    [][\A d \in ShopDomains :
          ShopRedact(d) =>
              IF \E s \in shops : s.shopDomain = d
              THEN LET shop == CHOOSE s \in shops : s.shopDomain = d
                   IN  /\ \A s \in shops' : s.shopDomain # d /\ s.id # shop.id
                       /\ SourcesIn(dataSources', shop.id) = {}
                       /\ PointsIn(dataPoints', dataSources, shop.id) = {}
                       /\ AnalysesIn(analyses', shop.id) = {}
                       /\ \A other \in shops \ {shop} :
                             /\ other \in shops'
                             /\ SourcesIn(dataSources', other.id)
                                    = SourcesIn(dataSources, other.id)
                             /\ PointsIn(dataPoints', dataSources', other.id)
                                    = PointsIn(dataPoints, dataSources, other.id)
                             /\ AnalysesIn(analyses', other.id) = AnalysesIn(analyses, other.id)
                             /\ \A i \in AnalysesIn(analyses, other.id) :
                                   analyses'[i] = analyses[i]
              ELSE UNCHANGED vars]_vars

\* A shop with an analysis of its own has been redacted while another shop keeps its
\* data and an analysis.
C21_Witness ==
    \E p, q \in Procs :
        /\ Started(p) /\ ~Stored(p)
        /\ \A s \in shops : s.id # proc[p].shopId
        /\ proc[p].pc \in {"done", "update", "catch", "thrown"}
        /\ Started(q) /\ Stored(q)
        /\ \E s \in shops : s.id = proc[q].shopId /\ SourcesIn(dataSources, s.id) # {}


(***************************************************************************)
(* The read endpoints: status polling, the results page and the download.  *)
(* Each is a query of the stored analyses on behalf of the shop of the     *)
(* authenticated session; NotFound stands for the 404 response.            *)
(***************************************************************************)
NotFound == NULL

\* A lookup by primary key alone, without the relation filter.
findFirstById(id, shopDomain) == {i \in DOMAIN analyses : i = id}

\* findFirst({ where: { id: analysisId, shop: { shopDomain: session.shop } } })
findFirstOwned(id, shopDomain) ==
    {i \in DOMAIN analyses :
        /\ i = id
        /\ \E s \in shops : s.id = analyses[i].shopId /\ s.shopDomain = shopDomain}

\* GET /api/analysis/:id/status
statusLoader(sessionShop, id) ==
    IF findFirstOwned(id, sessionShop) = {}
    THEN NotFound
    ELSE Some([id |-> id, status |-> analyses[id].status,
               completedAt |-> analyses[id].completedAt,
               errorMsg |-> analyses[id].errorMsg])

\* the loader of the results page
resultsLoader(sessionShop, id) ==
    IF findFirstOwned(id, sessionShop) = {}
    THEN NotFound
    ELSE Some([analysis |-> analyses[id], results |-> analyses[id].results,
               config |-> analyses[id].config])

\* GET /api/results/:id/download
downloadLoader(sessionShop, id) ==
    IF \/ {i \in findFirstOwned(id, sessionShop) : analyses[i].status = "COMPLETED"} = {}
       \/ analyses[id].results = NULL
    THEN NotFound
    ELSE Some(analyses[id].results)

OwnerDomains(id) ==
    IF id \in DOMAIN analyses
    THEN {s.shopDomain : s \in {t \in shops : t.id = analyses[id].shopId}}
    ELSE {}

\* C22: a status, results or download request authenticated as a shop is
\* answered only with an analysis that belongs to that shop, so a request
\* authenticated as A never observes the status, results or error message of
\* an analysis owned by another shop B; the download serves only COMPLETED
\* analyses.
C22_ShopIsolation ==
    \A a \in ShopDomains, id \in AnalysisIds :
        /\ a \notin OwnerDomains(id) =>
              /\ statusLoader(a, id) = NotFound
              /\ resultsLoader(a, id) = NotFound
              /\ downloadLoader(a, id) = NotFound
        /\ downloadLoader(a, id) # NotFound =>
              /\ analyses[id].status = "COMPLETED"
              /\ downloadLoader(a, id) = Some(analyses[id].results)

\* A completed analysis that its own shop downloads while another shop, also
\* holding an analysis, is told that there is none.
C22_Witness ==
    \E a, b \in ShopDomains, id, other \in AnalysisIds :
        /\ a # b
        /\ downloadLoader(a, id) # NotFound
        /\ resultsLoader(a, id) # NotFound
        /\ statusLoader(b, id) = NotFound
        /\ statusLoader(b, other) # NotFound
        /\ statusLoader(b, other)[1].status = "FAILED"
        /\ statusLoader(a, other) = NotFound



C24_EveryChannelFunded ==
    Analysed =>
        LET a == Computed
        IN  Greater(a.totalSpend, Zero) =>
                \A r \in 1..a.k : Greater(a.optimizedSpend[r], Zero)



\* C25: the channels of a completed analysis are in descending order of their
\* contribution (every entry is at least as large as the next one), and the
\* list holds exactly one entry for each detected channel.
C25_ChannelsSorted ==
    Analysed =>
        LET a == Computed
        IN  /\ Len(a.channelResults) = a.k
            /\ \A r \in 1..(a.k - 1) :
                  AtMost(a.channelResults[r + 1].contribution, a.channelResults[r].contribution)
            /\ \A i \in 1..a.k :
                  Cardinality({r \in 1..a.k : a.channelResults[r].channel = a.channels[i]}) = 1

\* The sort moved a channel: the one detected first has the smaller contribution.
C25_Witness ==
    /\ Analysed
    /\ LET a == Computed
       IN  /\ a.k >= 2
           /\ a.channelResults[1].channel # a.channels[1]
           /\ Greater(a.channelResults[1].contribution, a.channelResults[a.k].contribution)



RelativeError(y, yPred, i) ==
    IF Greater(MathAbs(y[i]), <<1, 100>>)
    THEN Over(MathAbs(Minus(y[i], yPred[i])), MathAbs(y[i]))
    ELSE Zero

\* C26: computeMAPE is 100 times the mean of |y - yPred| / |y| over the rows
\* whose observed value has a magnitude above 0.01, rows at or below the epsilon
\* being left out; it is 0 when no row qualifies, and it is never negative.
C26_MapeOverQualifyingRows ==
    proc[AnalysisProc].pc = "update" =>
        LET y     == mergeResult[1].y
            yPred == mergeResult[1].yPred
            mape  == proc[AnalysisProc].results[1]
            count == Cardinality({i \in DOMAIN y : Greater(MathAbs(y[i]), <<1, 100>>)})
        IN  /\ AtMost(Zero, mape)
            /\ count = 0 => mape = Zero
            /\ count > 0 =>
                  Times(mape, Num(count)) =
                      Times(Num(100), Sum([i \in DOMAIN y |-> RelativeError(y, yPred, i)]))

\* One row above the epsilon with an error and one row exactly at the epsilon
\* that is predicted wrongly and left out.
C26_Witness ==
    /\ proc[AnalysisProc].pc = "update"
    /\ \E i, j \in DOMAIN mergeResult[1].y :
          /\ mergeResult[1].y[i] = <<1, 100>>
          /\ mergeResult[1].yPred[i] = One
          /\ mergeResult[1].y[j] = <<1, 50>>
          /\ mergeResult[1].yPred[j] = <<1, 100>>
    /\ proc[AnalysisProc].results[1] = Num(50)



\* The deliveries for the shop that were processed for the given day.
Delivered(date) ==
    {p \in Procs : proc[p].pc = "done" /\ proc[p].shopId = WebhookShop /\ proc[p].date = date}

\* The value the shop's SHOPIFY_AUTO sources hold for a day and a variable.
DayValue(date, variable) ==
    LET held == {pt \in dataPoints :
                    /\ pt.date = date
                    /\ pt.variable = variable
                    /\ \E src \in dataSources :
                          /\ src.id = pt.dataSourceId
                          /\ src.shopId = WebhookShop
                          /\ src.type = "SHOPIFY_AUTO"}
        RECURSIVE Total(_)
        Total(S) == IF S = {} THEN 0
                    ELSE LET pt == CHOOSE x \in S : TRUE IN pt.value + Total(S \ {pt})
    IN  Total(held)

\* The value held before the deliveries.
PriorValue(date, variable) ==
    LET held == {pt \in PriorPoints : pt.date = date /\ pt.variable = variable}
    IN  IF PriorSource \in dataSources /\ held # {}
        THEN (CHOOSE pt \in held : TRUE).value
        ELSE 0

RECURSIVE SubtotalsOf(_)
SubtotalsOf(P) ==
    IF P = {} THEN 0
    ELSE LET p == CHOOSE x \in P : TRUE IN proc[p].values[1] + SubtotalsOf(P \ {p})

\* C27: once all deliveries of orders/create have been processed, for every day
\* the stored orders value has grown by the number of deliveries for that day
\* and net_sales by the sum of their subtotals, whatever the interleaving.
C27_NoLostUpdate ==
    (\A p \in Procs : proc[p].pc = "done") =>
        \A date \in {MidnightOf(c) : c \in CreatedAts} :
            /\ DayValue(date, "orders") =
                   PriorValue(date, "orders") + Cardinality(Delivered(date))
            /\ DayValue(date, "net_sales") =
                   PriorValue(date, "net_sales") + SubtotalsOf(Delivered(date))



\* C28: in every completed analysis the basePct of the summary lies between 0 and
\* 100 and the base revenue does not exceed the total revenue (the media revenue
\* is not negative), also when some coefficient is negative.
C28_BaseWithinTotal ==
    Analysed =>
        /\ AtMost(Zero, Results.summary.basePct)
        /\ AtMost(Results.summary.basePct, Num(100))
        /\ AtMost(Results.summary.baseRevenue, Results.summary.totalRevenue)



\* C29: the contribution series handed to estimateSaturation is the coefficient
\* times the daily spend, so a channel with positive total spend gets
\* saturationPct 5 when its coefficient is positive and its spend varies and 50
\* otherwise, and saturationPct is always one of 0, 5 and 50.
C29_SaturationValues ==
    Analysed =>
        LET a == Computed
        IN  \A r \in 1..a.k :
                LET spend == Column(a.data, costKey(a.channelResults[r].channel))
                    pct   == a.channelResults[r].saturationPct
                IN  /\ pct \in {Zero, Num(5), Num(50)}
                    /\ Greater(Sum(spend), Zero) =>
                          pct = IF /\ Greater(coefficientOf(a, r), Zero)
                                   /\ \E d \in DOMAIN spend : spend[d] # spend[1]
                                THEN Num(5)
                                ELSE Num(50)

\* A channel with a positive coefficient that is reported with 5 next to a
\* channel with a negative coefficient and varying spend that is reported with 50.
C29_Witness ==
    /\ Analysed
    /\ LET a == Computed
       IN  /\ \E r \in 1..a.k :
                 /\ Greater(coefficientOf(a, r), Zero)
                 /\ a.channelResults[r].saturationPct = Num(5)
           /\ \E r \in 1..a.k :
                 LET spend == Column(a.data, costKey(a.channelResults[r].channel))
                 IN  /\ Less(coefficientOf(a, r), Zero)
                     /\ \E d \in DOMAIN spend : spend[d] # spend[1]
                     /\ a.channelResults[r].saturationPct = Num(50)



\* The data points of the shop that hold variable v on a calendar day.
HeldOn(day, v) == {pt \in PointsOf(MergeShop) : DateKey(pt.date) = day /\ pt.variable = v}

\* The point among P that the iteration in the given order of sources reaches last.
LastWritten(order, P) ==
    LET position(pt) == CHOOSE n \in DOMAIN order : order[n].id = pt.dataSourceId
    IN  CHOOSE pt \in P :
            \A other \in P :
                \/ position(other) < position(pt)
                \/ position(other) = position(pt) /\ other.date <= pt.date

\* C30: when two data sources hold a value for the same day and variable, the merged
\* row holds exactly one of the values, that of the source iterated later; values
\* are never added up, and a variable held by one source only keeps that source's
\* value whatever the other source holds.
C30_LaterSourceWins ==
    mergeResult # NULL =>
        \E order \in FindManyOrders(SourcesOf(MergeShop)) :
            /\ mergeResult[1] = mergeShopifyAndExcelData(order, dataPoints)
            /\ \A i \in DOMAIN mergeResult[1].data, v \in InputVariables :
                  HeldOn(RowDay(i), v) # {} =>
                      mergeResult[1].data[i][v] = LastWritten(order, HeldOn(RowDay(i), v)).value

\* Both sources hold discounts at the same date with different values, the merged
\* row has the value of the Shopify source, and the uploaded sheet also holds a
\* variable of its own, which the row keeps.
C30_Witness ==
    /\ mergeResult # NULL
    /\ \E a, b, c \in dataPoints :
          /\ a.dataSourceId # b.dataSourceId
          /\ a.date = b.date /\ a.variable = "discounts" /\ b.variable = "discounts"
          /\ a.value # b.value
          /\ a.dataSourceId = Source(MergeShop, 1, "SHOPIFY_AUTO").id
          /\ c.dataSourceId = b.dataSourceId /\ c.variable = "google_ads_cost"
          /\ c.date = a.date
          /\ \E i \in DOMAIN mergeResult[1].data :
                /\ RowDay(i) = DateKey(a.date)
                /\ mergeResult[1].data[i]["discounts"] = a.value
                /\ mergeResult[1].data[i]["google_ads_cost"] = c.value


====
